---- MODULE Spec2Model ----
(***************************************************************************)
(* Model of the Roli-Seaboard-Web-API synthesizer core:                     *)
(*   js/Synthetizers.js  SubstractiveSynthetizer / CustomSubstractive...    *)
(*   Filters.js          Filter                                             *)
(* One action per message type of handleMessage, plus the audio clock and    *)
(* the application's own calls of Filter.updateFrequency.  The second       *)
(* listing in Synthetizers.js (from line 156) is an older copy of the same  *)
(* classes and is not part of the model.                                    *)
(* JavaScript values are tagged records so that undefined, null, NaN and    *)
(* the infinities stay distinct from the numbers.                           *)
(***************************************************************************)
EXTENDS Integers, Sequences, FiniteSets, TLC

\* ------------------------------------------------------------ bounds
MaxChannel == 2      \* channels 1..MaxChannel
MaxTime == 1         \* the audio clock runs from 0 to MaxTime
MaxEvents == 3       \* messages dispatched in one run, which ends with the last

\* ------------------------------------------------ program constants
\* Times are counted in tenths of a second.
DefaultFadeTime == 2     \* defaultSynthConf.fadeTime, 0.2 s
PressureRamp == 1        \* the 0.1 s of the pressure ramp
BendRamp == 1            \* the 0.1 s of the pitch-bend ramp
PressureBase == 128      \* pressure / (128 + gain)
CCStep == 10             \* frequencyVariation * 10
FilterMaxGain == 100     \* Filter.maxGain

Channels == 1..MaxChannel
Notes == {0, 60}
Pressures == {127}
CCValues == {0, 1}
FilterFrequencies == {0, 10}

\* -------------------------------------------------- JavaScript values
Undefined == [t |-> "undefined"]
Null == [t |-> "null"]
NaN == [t |-> "NaN"]
PosInf == [t |-> "Infinity"]
NegInf == [t |-> "-Infinity"]
Num(n) == [t |-> "num", v |-> n]
Str(x) == [t |-> "str", v |-> x]
Arr(items) == [t |-> "array", items |-> items]
Handle(kind, id) == [t |-> kind, id |-> id]

IsNum(x) == x.t = "num"
IsNumber(x) == x.t \in {"num", "NaN", "Infinity", "-Infinity"}

\* ToBoolean: undefined, null, NaN and 0 are falsy, everything else truthy.
Truthy(x) ==
  CASE x.t \in {"undefined", "null", "NaN"} -> FALSE
    [] x.t = "num" -> x.v # 0
    [] x.t = "str" -> x.v # ""
    [] OTHER -> TRUE

\* isNaN(x) of a value that went through +
IsNaN(x) == x.t = "NaN"

\* a + b of JavaScript, for the operands the handlers add.
JsAdd(a, b) ==
  CASE ~IsNumber(a) \/ ~IsNumber(b) -> NaN
    [] a.t = "NaN" \/ b.t = "NaN" -> NaN
    [] a.t = "Infinity" -> IF b.t = "-Infinity" THEN NaN ELSE PosInf
    [] a.t = "-Infinity" -> IF b.t = "Infinity" THEN NaN ELSE NegInf
    [] b.t = "Infinity" -> PosInf
    [] b.t = "-Infinity" -> NegInf
    [] OTHER -> Num(a.v + b.v)

\* a > b of JavaScript for numbers; any comparison with NaN is false.
JsGreater(a, b) ==
  CASE a.t = "NaN" \/ b.t = "NaN" -> FALSE
    [] a.t = "Infinity" -> b.t # "Infinity"
    [] a.t = "-Infinity" -> FALSE
    [] b.t = "Infinity" -> FALSE
    [] b.t = "-Infinity" -> TRUE
    [] OTHER -> a.v > b.v

ConfGains == {Undefined, Num(0), Num(10)}
Bends == {Num(1), NaN, PosInf, NegInf}
FrequencyArgs == {Num(500)}

\* Exact quotient num / den (den > 0), as a reduced fraction.
RECURSIVE Gcd(_, _)
Gcd(a, b) == IF b = 0 THEN a ELSE Gcd(b, a % b)
Ratio(num, den) ==
  LET g == Gcd(num, den)
  IN  IF g = 0 THEN [num |-> 0, den |-> 1] ELSE [num |-> num \div g, den |-> den \div g]

\* ---------------------------------------------------- FrequencyMapper
\* 440000 * 2^(k/12) mHz for k = 0..11, rounded.
SemitoneTable ==
  <<440000, 466164, 493883, 523251, 554365, 587330,
    622254, 659255, 698456, 739989, 783991, 830609>>

RECURSIVE Pow2(_)
Pow2(n) == IF n = 0 THEN 1 ELSE 2 * Pow2(n - 1)

\* MIDIController.noteToFrequency: 440 * 2^((note - 69) / 12), in mHz.
noteToFrequency(note) ==
  CASE note.t = "Infinity" -> PosInf
    [] note.t = "-Infinity" -> Num(0)
    [] note.t = "num" ->
         LET d == note.v - 69
             o == d \div 12
             k == d % 12
         IN  Num(IF o >= 0 THEN SemitoneTable[k + 1] * Pow2(o)
                           ELSE SemitoneTable[k + 1] \div Pow2(-o))
    [] OTHER -> NaN

\* -------------------------------------------------------------- Filter
\* new Filter(type, frequency, gain, q): the fields and the biquad node
\* that initBiquadFilter creates; connects counts connect(destination).
FilterNew(ftype, frequency, gain, q) ==
  [type |-> ftype, name |-> ftype, frequency |-> frequency,
   defaultFrequency |-> frequency, gain |-> gain, maxGain |-> FilterMaxGain,
   q |-> q,
   biquadFilter |-> [type |-> ftype, frequency |-> frequency, Q |-> q,
                     gain |-> gain, connects |-> 0]]

\* Filter.updateFrequency(value)
updateFrequency(f, value) ==
  LET f1 == IF Truthy(value) THEN [f EXCEPT !.frequency = value] ELSE f
  IN  [f1 EXCEPT !.biquadFilter.frequency = f1.frequency]

\* Filter.updateType(value)
updateType(f, value) ==
  LET f1 == IF Truthy(value) THEN [f EXCEPT !.type = value.v] ELSE f
  IN  [f1 EXCEPT !.biquadFilter.type = f1.type]

\* Filter.updateGain(value)
updateGain(f, value) ==
  LET f1 == IF Truthy(value)
            THEN [f EXCEPT !.gain = IF JsGreater(value, Num(f.maxGain))
                                    THEN Num(f.maxGain) ELSE value]
            ELSE f
  IN  [f1 EXCEPT !.biquadFilter.gain = f1.gain]

\* Filter.updateQ(value)
updateQ(f, value) ==
  LET f1 == IF Truthy(value) THEN [f EXCEPT !.q = value] ELSE f
  IN  [f1 EXCEPT !.biquadFilter.Q = f1.q]

\* Filter.connect(destination)
connect(f) == [f EXCEPT !.biquadFilter.connects = @ + 1]

\* --------------------------------------------------------- audio nodes
NoRamp == [kind |-> "none"]
LinearRamp(target, endTime) == [kind |-> "linear", target |-> target, endTime |-> endTime]
ExponentialRamp(target, endTime) == [kind |-> "exponential", target |-> target, endTime |-> endTime]

\* audioContext.createGain(): a gain node at unity, nothing scheduled.
\* forChannel remembers the initOscillator call that created the node.
createGain(channel) ==
  [forChannel |-> channel, value |-> Num(1), ramp |-> NoRamp, connected |-> FALSE]

\* audioContext.createOscillator(): a sine oscillator, not started.
createOscillator(channel) ==
  [forChannel |-> channel, wave |-> "sine", frequency |-> Num(440000),
   ramp |-> NoRamp, started |-> 0, connectedTo |-> Undefined]

\* {} : a channel entry with none of its fields set
EmptyObject ==
  [t |-> "obj", gainNode |-> Undefined, oscillator |-> Undefined,
   note |-> Undefined, startingPosY |-> Undefined]

\* --------------------------------------------------------------- state
VARIABLES
  type,           \* this.type: "classic" or "custom"
  configuration,  \* this.configuration: [gain, fadeTime, type]
  thisFilter,     \* this.filter: Undefined, or the reference to filter
  filter,         \* the Filter object given to the constructor
  channels,       \* this.channels: channel -> Undefined or channel entry
  gainNodes,      \* gain nodes created so far, a handle's id is the index
  oscillators,    \* oscillators created so far
  message,        \* this.message: the last Note ON message
  currentTime,    \* audioContext.currentTime, in tenths of a second
  thrown,         \* how the last handleMessage call ended
  lastMessage,    \* the message argument of the last handleMessage call; for
                  \* a filter on its own, its last update call
  events,         \* number of handleMessage calls so far; for a filter on
                  \* its own, of its update calls
  sin,            \* this.sin of a custom synthesizer
  cosin,          \* this.cosin
  amplitude,      \* this.amplitude
  funct,          \* this.function of a function synthesizer
  pending         \* a constructor call that has not run yet, or Undefined

\* The fields only the custom classes have, and the call that sets them.
waveVars == <<sin, cosin, amplitude, funct, pending>>

vars ==
  <<type, configuration, thisFilter, filter, channels, gainNodes, oscillators,
    message, currentTime, thrown, lastMessage, events, waveVars>>

\* The object a handler works on: this, with the nodes and the filter it
\* refers to.  type and thisFilter are never assigned after construction.
Self ==
  [type |-> type, thisFilter |-> thisFilter,
   channels |-> channels, gainNodes |-> gainNodes, oscillators |-> oscillators,
   filter |-> filter, message |-> message, thrown |-> "none"]

Throw(s, error) == [s EXCEPT !.thrown = error]

\* SubstractiveSynthetizer constructor: this.filter is not assigned.
SubstractiveSynthetizer(f, conf) ==
  [type |-> "classic",
   configuration |-> [conf EXCEPT !.gain = IF Truthy(@) THEN @ ELSE Num(0)],
   thisFilter |-> Undefined,
   sin |-> Undefined, cosin |-> Undefined, amplitude |-> Undefined,
   funct |-> Undefined]

\* Math.max(...items) and Math.min(...items) of an array of numbers
RECURSIVE MaxOf(_)
MaxOf(items) ==
  IF Len(items) = 1 THEN items[1]
  ELSE LET m == MaxOf(Tail(items)) IN IF items[1] > m THEN items[1] ELSE m
RECURSIVE MinOf(_)
MinOf(items) ==
  IF Len(items) = 1 THEN items[1]
  ELSE LET m == MinOf(Tail(items)) IN IF items[1] < m THEN items[1] ELSE m
MathMax(items) == IF Len(items) = 0 THEN NegInf ELSE Num(MaxOf(items))
MathMin(items) == IF Len(items) = 0 THEN PosInf ELSE Num(MinOf(items))

\* x * -1
JsNegate(x) ==
  CASE x.t = "num" -> Num(-x.v)
    [] x.t = "Infinity" -> NegInf
    [] x.t = "-Infinity" -> PosInf
    [] OTHER -> NaN

\* Math.max(...this.sin) || (Math.min(...this.sin) * -1)
Amplitude(sinArg) ==
  LET max == MathMax(sinArg.items)
  IN  IF Truthy(max) THEN max ELSE JsNegate(MathMin(sinArg.items))

\* CustomSubstractiveSynthetizer constructor: super(...), the coefficient
\* arrays, the amplitude, then this.filter = filter.
CustomSubstractiveSynthetizer(f, conf, sinArg, cosinArg) ==
  [SubstractiveSynthetizer(f, conf) EXCEPT !.sin = sinArg,
                                           !.cosin = cosinArg,
                                           !.amplitude = Amplitude(sinArg),
                                           !.type = "custom",
                                           !.thisFilter = f]

\* The generator functions given to FunctionSubstractiveSynthetizer.
Generators == {"identity", "negated", "alternating"}
Apply(g, i) ==
  CASE g = "identity" -> i
    [] g = "negated" -> -i
    [] g = "alternating" -> IF i % 2 = 1 THEN i ELSE -i

\* FunctionSubstractiveSynthetizer constructor: sin = [0, funct(1), ...,
\* funct(numSamples - 1)], cos = new Int8Array(numSamples), super(...).
FunctionSubstractiveSynthetizer(f, conf, g, numSamples) ==
  LET sin0 == <<0>> \o [i \in 1..(numSamples - 1) |-> Apply(g, i)]
      cos0 == [i \in 1..numSamples |-> 0]
  IN  [CustomSubstractiveSynthetizer(f, conf, Arr(sin0), Arr(cos0))
         EXCEPT !.funct = Str(g), !.type = "function"]

Init ==
  \E variant \in {"classic", "custom"}, frequency \in FilterFrequencies, gain \in ConfGains :
    LET conf == [gain |-> gain, fadeTime |-> DefaultFadeTime, type |-> "sine"]
        synth == IF variant = "classic"
                 THEN SubstractiveSynthetizer(Handle("Filter", 1), conf)
                 ELSE CustomSubstractiveSynthetizer(Handle("Filter", 1), conf,
                                                    Arr(<<0, 1>>), Arr(<<0, 0>>))
    IN  /\ type = synth.type
        /\ configuration = synth.configuration
        /\ thisFilter = synth.thisFilter
        /\ sin = synth.sin
        /\ cosin = synth.cosin
        /\ amplitude = synth.amplitude
        /\ funct = synth.funct
        /\ pending = Undefined
        /\ filter = FilterNew("lowpass", Num(frequency), Num(0), Num(1))
        /\ channels = [c \in Channels |-> Undefined]
        /\ gainNodes = << >>
        /\ oscillators = << >>
        /\ message = Undefined
        /\ currentTime = 0
        /\ thrown = "none"
        /\ lastMessage = Undefined
        /\ events = 0

\* ------------------------------------------------------ initOscillator
\* SubstractiveSynthetizer.initOscillator(note, channel)
initOscillator(s, note, channel) ==
  LET frequency == noteToFrequency(note)
      s1 == [s EXCEPT !.channels[channel] = IF Truthy(@) THEN @ ELSE EmptyObject]
      gainNode0 == s1.channels[channel].gainNode
      oscillator0 == s1.channels[channel].oscillator
      \* if (!gainNode) { createGain; gain.value = 0; connect(this.filter.biquadFilter); store }
      s2 == IF Truthy(gainNode0) THEN s1
            ELSE LET c == [s1 EXCEPT !.gainNodes =
                              Append(@, [createGain(channel) EXCEPT !.value = Num(0)])]
                     h == Handle("GainNode", Len(c.gainNodes))
                 IN  IF ~Truthy(s.thisFilter) THEN Throw(c, "TypeError")
                     ELSE [c EXCEPT !.gainNodes[h.id].connected = TRUE,
                                    !.channels[channel].gainNode = h]
      gainNode == s2.channels[channel].gainNode
      \* if (!oscillator) { createOscillator; type; store; connect(gainNode); this.filter.connect(...) }
      s3 == IF s2.thrown # "none" \/ Truthy(oscillator0) THEN s2
            ELSE LET c == [s2 EXCEPT !.oscillators =
                              Append(@, [createOscillator(channel) EXCEPT !.wave = configuration.type])]
                     h == Handle("Oscillator", Len(c.oscillators))
                     c2 == [c EXCEPT !.channels[channel].oscillator = h,
                                     !.oscillators[h.id].connectedTo = gainNode]
                 IN  IF ~Truthy(s.thisFilter) THEN Throw(c2, "TypeError")
                     ELSE [c2 EXCEPT !.filter = connect(@)]
      oscillator == s3.channels[channel].oscillator
  IN  IF s3.thrown # "none" THEN s3
      ELSE [s3 EXCEPT !.oscillators[oscillator.id].frequency = frequency,
                      !.oscillators[oscillator.id].started = @ + 1]

\* CustomSubstractiveSynthetizer.initOscillator with gain.value = 0 left
\* out: the new gain node stays at unity.
CustomInitOscillator_Unmuted(s, note, channel) ==
  LET frequency == noteToFrequency(note)
      s1 == [s EXCEPT !.channels[channel] = IF Truthy(@) THEN @ ELSE EmptyObject]
      gainNode0 == s1.channels[channel].gainNode
      oscillator0 == s1.channels[channel].oscillator
      s2 == IF Truthy(gainNode0) THEN s1
            ELSE LET c == [s1 EXCEPT !.gainNodes = Append(@, createGain(channel))]
                     h == Handle("GainNode", Len(c.gainNodes))
                 IN  IF ~Truthy(s.thisFilter) THEN Throw(c, "TypeError")
                     ELSE [c EXCEPT !.gainNodes[h.id].connected = TRUE,
                                    !.channels[channel].gainNode = h]
      gainNode == s2.channels[channel].gainNode
      s3 == IF s2.thrown # "none" \/ Truthy(oscillator0) THEN s2
            ELSE LET c == [s2 EXCEPT !.oscillators =
                              Append(@, [createOscillator(channel) EXCEPT !.wave = "periodicWave"])]
                     h == Handle("Oscillator", Len(c.oscillators))
                     c2 == [c EXCEPT !.oscillators[h.id].connectedTo = gainNode,
                                     !.channels[channel].oscillator = h]
                 IN  IF ~Truthy(s.thisFilter) THEN Throw(c2, "TypeError")
                     ELSE [c2 EXCEPT !.filter = connect(@)]
      oscillator == s3.channels[channel].oscillator
  IN  IF s3.thrown # "none" THEN s3
      ELSE [s3 EXCEPT !.oscillators[oscillator.id].frequency = frequency,
                      !.oscillators[oscillator.id].started = @ + 1]

\* CustomSubstractiveSynthetizer.initOscillator(note, channel)
CustomInitOscillator(s, note, channel) ==
  LET frequency == noteToFrequency(note)
      s1 == [s EXCEPT !.channels[channel] = IF Truthy(@) THEN @ ELSE EmptyObject]
      gainNode0 == s1.channels[channel].gainNode
      oscillator0 == s1.channels[channel].oscillator
      \* if (!gainNode) { createGain; connect(this.filter.biquadFilter); gain.value = 0; store }
      s2 == IF Truthy(gainNode0) THEN s1
            ELSE LET c == [s1 EXCEPT !.gainNodes = Append(@, createGain(channel))]
                     h == Handle("GainNode", Len(c.gainNodes))
                 IN  IF ~Truthy(s.thisFilter) THEN Throw(c, "TypeError")
                     ELSE [c EXCEPT !.gainNodes[h.id].connected = TRUE,
                                    !.gainNodes[h.id].value = Num(0),
                                    !.channels[channel].gainNode = h]
      gainNode == s2.channels[channel].gainNode
      \* if (!oscillator) { createOscillator; setPeriodicWave; connect(gainNode); store; this.filter.connect(...) }
      s3 == IF s2.thrown # "none" \/ Truthy(oscillator0) THEN s2
            ELSE LET c == [s2 EXCEPT !.oscillators =
                              Append(@, [createOscillator(channel) EXCEPT !.wave = "periodicWave"])]
                     h == Handle("Oscillator", Len(c.oscillators))
                     c2 == [c EXCEPT !.oscillators[h.id].connectedTo = gainNode,
                                     !.channels[channel].oscillator = h]
                 IN  IF ~Truthy(s.thisFilter) THEN Throw(c2, "TypeError")
                     ELSE [c2 EXCEPT !.filter = connect(@)]
      oscillator == s3.channels[channel].oscillator
  IN  IF s3.thrown # "none" THEN s3
      ELSE [s3 EXCEPT !.oscillators[oscillator.id].frequency = frequency,
                      !.oscillators[oscillator.id].started = @ + 1]

\* this.initOscillator(...): the method of the object's own class
ThisInitOscillator(s, note, channel) ==
  IF s.type = "classic" THEN initOscillator(s, note, channel)
                      ELSE CustomInitOscillator(s, note, channel)

\* ------------------------------------------------------- handleMessage
\* case 'Note ON' with the channel test lost: initOscillator on every Note ON.
caseNoteON_AlwaysInit(s, note, channel) ==
  LET s1 == ThisInitOscillator(s, Num(note), channel)
      s2 == [s1 EXCEPT !.message = [type |-> "Note ON", channel |-> channel, note |-> note]]
      oscillator == s2.channels[channel].oscillator
  IN  IF s1.thrown # "none" THEN s1
      ELSE IF ~Truthy(oscillator) THEN Throw(s2, "TypeError")
      ELSE [s2 EXCEPT !.oscillators[oscillator.id].frequency = noteToFrequency(Num(note)),
                      !.channels[channel].note = Num(note)]

\* case 'Note ON'
caseNoteON(s, note, channel) ==
  LET s1 == IF ~Truthy(s.channels[channel])
            THEN ThisInitOscillator(s, Num(note), channel) ELSE s
      s2 == [s1 EXCEPT !.message = [type |-> "Note ON", channel |-> channel, note |-> note]]
      oscillator == s2.channels[channel].oscillator
  IN  IF s1.thrown # "none" THEN s1
      ELSE IF ~Truthy(oscillator) THEN Throw(s2, "TypeError")
      ELSE [s2 EXCEPT !.oscillators[oscillator.id].frequency = noteToFrequency(Num(note)),
                      !.channels[channel].note = Num(note)]

\* case 'Note OFF'
caseNoteOFF(s, channel) ==
  IF ~Truthy(s.channels[channel]) THEN Throw(s, "TypeError")
  ELSE LET s1 == [s EXCEPT !.channels[channel].startingPosY = Null]
           gainNode == s1.channels[channel].gainNode
       IN  IF ~Truthy(s.thisFilter) THEN Throw(s1, "TypeError")
           ELSE LET s2 == [s1 EXCEPT !.filter = updateFrequency(@, @.defaultFrequency)]
                IN  IF ~Truthy(gainNode) THEN Throw(s2, "TypeError")
                    ELSE [s2 EXCEPT !.gainNodes[gainNode.id].ramp =
                            LinearRamp(Ratio(0, 1), currentTime + configuration.fadeTime)]

\* case 'Channel Pressure (After-touch)' with the configured gain left out.
caseChannelPressure_NoGain(s, pressure, channel) ==
  IF ~Truthy(s.channels[channel]) THEN Throw(s, "TypeError")
  ELSE LET gainNode == s.channels[channel].gainNode
       IN  IF ~Truthy(gainNode) THEN Throw(s, "TypeError")
           ELSE [s EXCEPT !.gainNodes[gainNode.id].ramp =
                   LinearRamp(Ratio(pressure, PressureBase), currentTime + PressureRamp)]

\* case 'Channel Pressure (After-touch)' with the ramp scheduled on every
\* gain node instead of the channel's own.
caseChannelPressure_AllVoices(s, pressure, channel) ==
  IF ~Truthy(s.channels[channel]) THEN Throw(s, "TypeError")
  ELSE LET gainNode == s.channels[channel].gainNode
           gain == IF Truthy(configuration.gain) THEN configuration.gain ELSE Num(0)
       IN  IF ~Truthy(gainNode) THEN Throw(s, "TypeError")
           ELSE [s EXCEPT !.gainNodes =
                   [i \in 1..Len(@) |-> [@[i] EXCEPT !.ramp =
                      LinearRamp(Ratio(pressure, PressureBase + gain.v),
                                 currentTime + PressureRamp)]]]

\* case 'Channel Pressure (After-touch)'
caseChannelPressure(s, pressure, channel) ==
  IF ~Truthy(s.channels[channel]) THEN Throw(s, "TypeError")
  ELSE LET gainNode == s.channels[channel].gainNode
           gain == IF Truthy(configuration.gain) THEN configuration.gain ELSE Num(0)
       IN  IF ~Truthy(gainNode) THEN Throw(s, "TypeError")
           ELSE [s EXCEPT !.gainNodes[gainNode.id].ramp =
                   LinearRamp(Ratio(pressure, PressureBase + gain.v), currentTime + PressureRamp)]

\* AudioParam.exponentialRampToValueAtTime(value, endTime) of the audio
\* graph: a finite non-zero target is scheduled.  For any other target a
\* conforming node throws and schedules nothing, a lenient one takes the
\* call as given.
exponentialRampToValueAtTime(s, id, value, endTime, lenient) ==
  IF (IsNum(value) /\ value.v # 0) \/ lenient
  THEN [s EXCEPT !.oscillators[id].ramp = ExponentialRamp(value, endTime)]
  ELSE Throw(s, IF IsNum(value) THEN "RangeError" ELSE "TypeError")

\* case 'Pitch Bend Change'
casePitchBendChange(s, pitchBend, channel, lenient) ==
  IF Truthy(s.channels[channel]) /\ Truthy(s.channels[channel].note)
  THEN LET noteModulation == JsAdd(s.channels[channel].note, pitchBend)
           oscillator == s.channels[channel].oscillator
       IN  IF ~IsNaN(noteModulation)
           THEN IF ~Truthy(oscillator) THEN Throw(s, "TypeError")
                ELSE exponentialRampToValueAtTime(s, oscillator.id,
                       noteToFrequency(noteModulation), currentTime + BendRamp, lenient)
           ELSE s
  ELSE s

\* case 'Control change'
caseControlChange(s, controlChange, channel) ==
  IF ~Truthy(s.channels[channel]) THEN s
  ELSE IF ~Truthy(s.channels[channel].startingPosY)
  THEN [s EXCEPT !.channels[channel].startingPosY = Num(controlChange)]
  ELSE IF ~Truthy(s.thisFilter) THEN Throw(s, "TypeError")
  ELSE LET frequencyVariation == controlChange - s.channels[channel].startingPosY.v
       IN  [s EXCEPT !.filter =
              updateFrequency(@, Num(@.defaultFrequency.v + frequencyVariation * CCStep))]

\* ------------------------------------------------------------- actions
\* The messages the event source delivers.
NoteONMessage(c, n) == [type |-> "Note ON", channel |-> c, note |-> n]
NoteOFFMessage(c) == [type |-> "Note OFF", channel |-> c]
PressureMessage(c, p) ==
  [type |-> "Channel Pressure (After-touch)", channel |-> c, pressure |-> p]
PitchBendMessage(c, b) == [type |-> "Pitch Bend Change", channel |-> c, pitchBend |-> b]
ControlChangeMessage(c, v) == [type |-> "Control change", channel |-> c, controlChange |-> v]

\* The state after handleMessage(msg) returned (or threw) with s.
Handled(msg, s) ==
  /\ events < MaxEvents
  /\ events' = events + 1
  /\ lastMessage' = msg
  /\ channels' = s.channels
  /\ gainNodes' = s.gainNodes
  /\ oscillators' = s.oscillators
  /\ filter' = s.filter
  /\ message' = s.message
  /\ thrown' = s.thrown
  /\ UNCHANGED <<type, configuration, thisFilter, currentTime, waveVars>>

NoteOn(c, n) == Handled(NoteONMessage(c, n), caseNoteON(Self, n, c))
NoteOff(c) == Handled(NoteOFFMessage(c), caseNoteOFF(Self, c))
Pressure(c, p) == Handled(PressureMessage(c, p), caseChannelPressure(Self, p, c))
PitchBend(c, b, lenient) ==
  Handled(PitchBendMessage(c, b), casePitchBendChange(Self, b, c, lenient))
ControlChange(c, v) == Handled(ControlChangeMessage(c, v), caseControlChange(Self, v, c))

\* The ways the audio graph may answer a ramp call for a bend: only an
\* infinite bend can make a target it may refuse.
NodeAnswers(b) == IF b.t \in {"Infinity", "-Infinity"} THEN BOOLEAN ELSE {FALSE}

\* The audio clock advances between messages.
Tick ==
  /\ events < MaxEvents
  /\ currentTime < MaxTime
  /\ currentTime' = currentTime + 1
  /\ UNCHANGED <<type, configuration, thisFilter, filter, channels, gainNodes,
                 oscillators, message, thrown, lastMessage, events, waveVars>>

\* The application calls filter.updateFrequency(value) on the filter it built.
FilterUpdateFrequency(value) ==
  /\ events < MaxEvents
  /\ filter' = updateFrequency(filter, value)
  /\ UNCHANGED <<type, configuration, thisFilter, channels, gainNodes, oscillators,
                 message, currentTime, thrown, lastMessage, events, waveVars>>

Next ==
  \/ \E c \in Channels, n \in Notes : NoteOn(c, n)
  \/ \E c \in Channels : NoteOff(c)
  \/ \E c \in Channels, p \in Pressures : Pressure(c, p)
  \/ \E c \in Channels, b \in Bends : \E lenient \in NodeAnswers(b) : PitchBend(c, b, lenient)
  \/ \E c \in Channels, v \in CCValues : ControlChange(c, v)
  \/ \E value \in FrequencyArgs : FilterUpdateFrequency(value)
  \/ Tick

Spec == Init /\ [][Next]_vars

\* ------------------------------------------------- the Filter on its own
\* The arguments the application constructs and updates a filter with;
\* Undefined is a call without the argument.
FilterGains == {0, 50, 150}
TypeArgs == {Undefined, Str(""), Str("highpass")}
GainArgs == {Undefined, Num(0), Num(50), Num(150)}
FrequencyUpdateArgs == {Undefined, Num(0), Num(1000)}
QArgs == {Undefined, Num(0), Num(5)}

\* No synthesizer has been constructed.
NoSynthesizer ==
  /\ type = "none"
  /\ configuration = Undefined
  /\ thisFilter = Undefined
  /\ channels = [c \in Channels |-> Undefined]
  /\ gainNodes = << >>
  /\ oscillators = << >>
  /\ message = Undefined
  /\ currentTime = 0
  /\ thrown = "none"
  /\ lastMessage = Undefined
  /\ events = 0
  /\ sin = Undefined
  /\ cosin = Undefined
  /\ amplitude = Undefined
  /\ funct = Undefined

\* new Filter('lowpass', frequency, gain, 1)
FilterInit ==
  \E frequency \in FilterFrequencies, gain \in FilterGains :
    /\ filter = FilterNew("lowpass", Num(frequency), Num(gain), Num(1))
    /\ NoSynthesizer
    /\ pending = Undefined

\* The state after the update call left the filter as f.
UpdateCall(method, value) == [method |-> method, value |-> value]
Updated(call, f) ==
  /\ events < MaxEvents
  /\ events' = events + 1
  /\ lastMessage' = call
  /\ filter' = f
  /\ UNCHANGED <<type, configuration, thisFilter, channels, gainNodes, oscillators,
                 message, currentTime, thrown, waveVars>>

UpdateType(value) == Updated(UpdateCall("updateType", value), updateType(filter, value))
UpdateGain(value) == Updated(UpdateCall("updateGain", value), updateGain(filter, value))
UpdateFrequency(value) ==
  Updated(UpdateCall("updateFrequency", value), updateFrequency(filter, value))
UpdateQ(value) == Updated(UpdateCall("updateQ", value), updateQ(filter, value))

FilterNext ==
  \/ \E value \in TypeArgs : UpdateType(value)
  \/ \E value \in GainArgs : UpdateGain(value)
  \/ \E value \in FrequencyUpdateArgs : UpdateFrequency(value)
  \/ \E value \in QArgs : UpdateQ(value)

FilterSpec == FilterInit /\ [][FilterNext]_vars

\* ------------------------------------- the custom classes' constructors
MaxLen == 3          \* longest explicit coefficient array
MaxSamples == 4      \* largest numSamples

Coefficients == {-5, -1, 0, 1}
CoefficientArrays == UNION {[1..n -> Coefficients] : n \in 0..MaxLen}

\* new CustomSubstractiveSynthetizer(name, filter, conf, sin, cosin) and
\* new FunctionSubstractiveSynthetizer(name, filter, conf, funct, false, numSamples)
NewCustomCall(sinArg, cosinArg) ==
  [t |-> "new", class |-> "CustomSubstractiveSynthetizer",
   sin |-> sinArg, cosin |-> cosinArg]
NewFunctionCall(g, numSamples) ==
  [t |-> "new", class |-> "FunctionSubstractiveSynthetizer",
   funct |-> g, numSamples |-> numSamples]

ConstructorCalls ==
  {NewCustomCall(Arr(a), Arr([i \in 1..Len(a) |-> 0])) : a \in CoefficientArrays}
    \cup {NewFunctionCall(g, n) : g \in Generators, n \in 0..MaxSamples}

DefaultConf == [gain |-> Num(0), fadeTime |-> DefaultFadeTime, type |-> "sine"]

\* The application is about to construct a synthesizer.
WaveInit ==
  \E call \in ConstructorCalls :
    /\ pending = call
    /\ filter = FilterNew("lowpass", Num(350), Num(0), Num(1))
    /\ NoSynthesizer

\* The state after the pending constructor call returned synth.
Constructed(synth) ==
  /\ type' = synth.type
  /\ configuration' = synth.configuration
  /\ thisFilter' = synth.thisFilter
  /\ sin' = synth.sin
  /\ cosin' = synth.cosin
  /\ amplitude' = synth.amplitude
  /\ funct' = synth.funct
  /\ pending' = Undefined
  /\ UNCHANGED <<filter, channels, gainNodes, oscillators, message, currentTime,
                 thrown, lastMessage, events>>

NewCustom(sinArg, cosinArg) ==
  /\ pending = NewCustomCall(sinArg, cosinArg)
  /\ Constructed(CustomSubstractiveSynthetizer(Handle("Filter", 1), DefaultConf,
                                               sinArg, cosinArg))

NewFunction(g, numSamples) ==
  /\ pending = NewFunctionCall(g, numSamples)
  /\ Constructed(FunctionSubstractiveSynthetizer(Handle("Filter", 1), DefaultConf,
                                                 g, numSamples))

WaveNext ==
  \/ /\ pending.t = "new"
     /\ pending.class = "CustomSubstractiveSynthetizer"
     /\ NewCustom(pending.sin, pending.cosin)
  \/ /\ pending.t = "new"
     /\ pending.class = "FunctionSubstractiveSynthetizer"
     /\ NewFunction(pending.funct, pending.numSamples)

WaveSpec == WaveInit /\ [][WaveNext]_vars

\* ============================================================== claims
\* A channel has a voice (is Sounding) when its entry holds an oscillator
\* and a gain node; it is Silent otherwise.
HasVoiceIn(chs, c) ==
  /\ Truthy(chs[c])
  /\ Truthy(chs[c].oscillator)
  /\ Truthy(chs[c].gainNode)
HasVoice(c) == HasVoiceIn(channels, c)

\* A channel has a baseline when a control-change value is stored for it.
HasBaseline(c) == Truthy(channels[c]) /\ IsNum(channels[c].startingPosY)

\* The recorded note of a channel, undefined when there is none.
NoteOf(c) == IF Truthy(channels[c]) THEN channels[c].note ELSE Undefined

IsFinite(x) == x.t = "num"

OscillatorsFor(oscs, c) == {i \in 1..Len(oscs) : oscs[i].forChannel = c}
GainNodesFor(gns, c) == {i \in 1..Len(gns) : gns[i].forChannel = c}

\* C1: Note ON on a channel with no voice creates exactly one oscillator and
\* one gain node for it, records the note and leaves the channel Sounding;
\* Note ON on a channel that has a voice creates nothing and changes only
\* the oscillator's frequency and the recorded note.
C1_NoteOnCreatesOrReusesVoice ==
  [][\A c \in Channels, n \in Notes :
       NoteOn(c, n) =>
         IF ~HasVoice(c)
         THEN /\ Len(oscillators') = Len(oscillators) + 1
              /\ Len(gainNodes') = Len(gainNodes) + 1
              /\ Cardinality(OscillatorsFor(oscillators', c)) = 1
              /\ Cardinality(GainNodesFor(gainNodes', c)) = 1
              /\ HasVoiceIn(channels', c)
              /\ channels'[c].note = Num(n)
         ELSE /\ gainNodes' = gainNodes
              /\ filter' = filter
              /\ oscillators' = [oscillators EXCEPT
                    ![channels[c].oscillator.id].frequency = noteToFrequency(Num(n))]
              /\ channels' = [channels EXCEPT ![c].note = Num(n)]]_vars

\* Every channel got at most one oscillator and one gain node, and every
\* oscillator was started exactly once.
OneVoicePerChannel(oscs, gns) ==
  /\ \A i, j \in 1..Len(oscs) : oscs[i].forChannel = oscs[j].forChannel => i = j
  /\ \A i, j \in 1..Len(gns) : gns[i].forChannel = gns[j].forChannel => i = j
  /\ \A i \in 1..Len(oscs) : oscs[i].started = 1

\* C2: for every channel at most one oscillator and one gain node are ever
\* created, every oscillator is started exactly once, and a channel that has
\* a voice keeps the same oscillator and gain handles in every later state.
C2_VoiceCreatedOnceAndKept ==
  [][/\ OneVoicePerChannel(oscillators, gainNodes)
     /\ OneVoicePerChannel(oscillators', gainNodes')
     /\ \A c \in Channels :
          HasVoice(c) =>
            /\ HasVoiceIn(channels', c)
            /\ channels'[c].oscillator = channels[c].oscillator
            /\ channels'[c].gainNode = channels[c].gainNode]_vars

\* C2 witness: a channel was played, retriggered with another note and then
\* released: it still has its one voice, tuned to the second note.
C2_Witness ==
  \E c \in Channels :
    /\ HasVoice(c)
    /\ events = 3
    /\ lastMessage = NoteOFFMessage(c)
    /\ message = NoteONMessage(c, 60)
    /\ channels[c].note = Num(60)
    /\ gainNodes[channels[c].gainNode.id].ramp.kind = "linear"
    /\ oscillators[channels[c].oscillator.id].frequency = noteToFrequency(Num(60))
    /\ oscillators[channels[c].oscillator.id].started = 1
    /\ Len(oscillators) = 1
    /\ Len(gainNodes) = 1

\* C3: Note OFF on a Sounding channel ramps the channel's gain linearly to 0
\* ending at currentTime + fadeTime, sets the filter's frequency to its
\* defaultFrequency, clears the baseline and keeps voice and note.
C3_NoteOffSilencesAndResetsFilter ==
  [][\A c \in Channels :
       (HasVoice(c) /\ NoteOff(c)) =>
         /\ gainNodes' = [gainNodes EXCEPT ![channels[c].gainNode.id].ramp =
               LinearRamp(Ratio(0, 1), currentTime + configuration.fadeTime)]
         /\ filter'.frequency = filter.defaultFrequency
         /\ filter'.biquadFilter.frequency = filter.defaultFrequency
         /\ ~IsNum(channels'[c].startingPosY)
         /\ channels'[c].oscillator = channels[c].oscillator
         /\ channels'[c].gainNode = channels[c].gainNode
         /\ channels'[c].note = channels[c].note]_vars

\* C4: Note OFF for a channel with no voice is a no-op: no error, no voice,
\* no ramp, channel map and filter unchanged.
C4_NoteOffSilentIsNoOp ==
  [][\A c \in Channels :
       (~HasVoice(c) /\ NoteOff(c)) =>
         /\ thrown' = "none"
         /\ UNCHANGED <<channels, gainNodes, oscillators, filter>>]_vars

\* C5: Pressure for a channel with no voice is swallowed: no error, no
\* voice, no gain ramp, no state change.
C5_PressureSilentIsNoOp ==
  [][\A c \in Channels, p \in Pressures :
       (~HasVoice(c) /\ Pressure(c, p)) =>
         /\ thrown' = "none"
         /\ UNCHANGED <<channels, gainNodes, oscillators, filter, message>>]_vars

\* C6: Control change or Pitch Bend for a channel with no voice is ignored:
\* no error, no channel entry or voice, no baseline, no frequency ramp, the
\* filter unchanged.
C6_ControlAndBendSilentIgnored ==
  [][\A c \in Channels :
       (/\ ~HasVoice(c)
        /\ \/ \E v \in CCValues : ControlChange(c, v)
           \/ \E b \in Bends : \E lenient \in NodeAnswers(b) : PitchBend(c, b, lenient)) =>
         /\ thrown' = "none"
         /\ UNCHANGED <<channels, gainNodes, oscillators, filter>>]_vars

\* C7: Pressure(p) on a Sounding channel schedules a linear ramp of that
\* channel's gain to p / (128 + configured gain) ending at currentTime + 0.1 s
\* and changes nothing else.
C7_PressureRampsGain ==
  [][\A c \in Channels, p \in Pressures :
       (HasVoice(c) /\ Pressure(c, p)) =>
         /\ gainNodes' = [gainNodes EXCEPT ![channels[c].gainNode.id].ramp =
               [kind |-> "linear",
                target |-> Ratio(p, 128 + configuration.gain.v),
                endTime |-> currentTime + 1]]
         /\ thrown' = "none"
         /\ UNCHANGED <<channels, oscillators, filter, message>>]_vars

\* C7 witness: with a configured gain of 10, a pressure of 127 was applied,
\* after the clock advanced, to a channel that has a note and a baseline.
C7_Witness ==
  \E c \in Channels :
    /\ HasVoice(c)
    /\ lastMessage = PressureMessage(c, 127)
    /\ thrown = "none"
    /\ configuration.gain = Num(10)
    /\ currentTime = 1
    /\ HasBaseline(c)
    /\ IsNum(channels[c].note)
    /\ gainNodes[channels[c].gainNode.id].ramp =
         [kind |-> "linear", target |-> [num |-> 127, den |-> 138], endTime |-> 2]

\* C8: for a Sounding channel with recorded note n of 0..127 and a finite
\* bend b, Pitch Bend schedules an exponential ramp of the oscillator
\* frequency to FrequencyMapper(n + b) ending at currentTime + 0.1 s and
\* leaves the recorded note unchanged.
C8_PitchBendRampsFrequency ==
  [][\A c \in Channels, b \in Bends : \A lenient \in NodeAnswers(b) :
       (/\ HasVoice(c) /\ IsFinite(b)
        /\ IsFinite(NoteOf(c)) /\ NoteOf(c).v \in 0..127
        /\ PitchBend(c, b, lenient)) =>
         /\ oscillators' = [oscillators EXCEPT ![channels[c].oscillator.id].ramp =
               [kind |-> "exponential",
                target |-> noteToFrequency(Num(NoteOf(c).v + b.v)),
                endTime |-> currentTime + 1]]
         /\ channels' = channels]_vars

\* C9: a Pitch Bend whose currentNote + bend is not finite (NaN, an
\* infinity, or no recorded note) schedules no ramp and changes no state.
C9_NonFiniteBendDiscarded ==
  [][\A c \in Channels, b \in Bends : \A lenient \in NodeAnswers(b) :
       (~IsFinite(JsAdd(NoteOf(c), b)) /\ PitchBend(c, b, lenient)) =>
         /\ thrown' = "none"
         /\ UNCHANGED <<channels, gainNodes, oscillators, filter, message>>]_vars

\* C10: on a channel with a voice, a Control change with no baseline stores
\* its value (0 included) as the baseline and leaves the filter alone; with
\* a baseline v1 it sets the filter frequency to
\* defaultFrequency + (v - v1) * 10 and the baseline stays v1.
C10_ControlChangeRelativeToBaseline ==
  [][\A c \in Channels, v \in CCValues :
       (HasVoice(c) /\ ControlChange(c, v)) =>
         IF ~HasBaseline(c)
         THEN /\ channels'[c].startingPosY = Num(v)
              /\ filter' = filter
         ELSE /\ channels'[c].startingPosY = channels[c].startingPosY
              /\ filter'.frequency =
                   Num(filter.defaultFrequency.v + (v - channels[c].startingPosY.v) * 10)
              /\ filter'.biquadFilter.frequency = filter'.frequency]_vars

\* ------------------------------------------------ the two variants
\* The object of the current state as each class's constructor would have
\* set it up with the same filter and configuration.
AsClassic ==
  LET synth == SubstractiveSynthetizer(Handle("Filter", 1), configuration)
  IN  [Self EXCEPT !.type = synth.type, !.thisFilter = synth.thisFilter]
AsCustom ==
  LET synth == CustomSubstractiveSynthetizer(Handle("Filter", 1), configuration,
                                             Arr(<<0, 1>>), Arr(<<0, 0>>))
  IN  [Self EXCEPT !.type = synth.type, !.thisFilter = synth.thisFilter]

\* What a handler call leaves behind, apart from the waveform of the
\* oscillators: channel entries, gain nodes and ramps, oscillator
\* frequencies and ramps, the filter, and how the call ended.
Observable(s) ==
  [channels |-> s.channels,
   gainNodes |-> s.gainNodes,
   oscillators |-> [i \in 1..Len(s.oscillators) |-> [s.oscillators[i] EXCEPT !.wave = "any"]],
   filter |-> s.filter,
   message |-> s.message,
   thrown |-> s.thrown]

\* C14: the basic-waveform and the custom-waveform synthesizer, constructed
\* with the same filter and configuration, answer every message in the same
\* way from the same state: same channel entries, gain ramps, frequency
\* updates and filter updates, the oscillator's waveform apart.
C14_VariantsAnswerAlike ==
  type \in {"classic", "custom"} =>
    /\ \A c \in Channels, n \in Notes :
         Observable(caseNoteON(AsClassic, n, c)) = Observable(caseNoteON(AsCustom, n, c))
    /\ \A c \in Channels :
         Observable(caseNoteOFF(AsClassic, c)) = Observable(caseNoteOFF(AsCustom, c))
    /\ \A c \in Channels, p \in Pressures :
         Observable(caseChannelPressure(AsClassic, p, c))
           = Observable(caseChannelPressure(AsCustom, p, c))
    /\ \A c \in Channels, b \in Bends : \A lenient \in NodeAnswers(b) :
         Observable(casePitchBendChange(AsClassic, b, c, lenient))
           = Observable(casePitchBendChange(AsCustom, b, c, lenient))
    /\ \A c \in Channels, v \in CCValues :
         Observable(caseControlChange(AsClassic, v, c))
           = Observable(caseControlChange(AsCustom, v, c))

\* C17: Note OFF on a channel with a voice leaves it without a baseline;
\* the next Control change(v) on the channel records v as the baseline and
\* leaves the filter alone, and a Control change on a channel that has a
\* recorded baseline sets the filter frequency relative to that baseline.
C17_BaselineRestartsAfterNoteOff ==
  [][\A c \in Channels :
       /\ (HasVoice(c) /\ NoteOff(c)) => channels'[c].startingPosY = Null
       /\ \A v \in CCValues :
            (HasVoice(c) /\ ControlChange(c, v)) =>
              CASE channels[c].startingPosY = Null ->
                     /\ channels'[c].startingPosY = Num(v)
                     /\ filter' = filter
                [] IsNum(channels[c].startingPosY) ->
                     /\ channels'[c].startingPosY = channels[c].startingPosY
                     /\ filter'.biquadFilter.frequency =
                          Num(filter.defaultFrequency.v + (v - channels[c].startingPosY.v) * 10)
                [] OTHER -> TRUE]_vars

\* The nodes created for a channel, with what is set and scheduled on them.
NodesOf(gns, oscs, d) ==
  <<[i \in {j \in 1..Len(gns) : gns[j].forChannel = d} |-> gns[i]],
    [i \in {j \in 1..Len(oscs) : oscs[j].forChannel = d} |-> oscs[i]]>>

\* C18: a message addressed to channel c leaves every other channel d as it
\* was: its entry (oscillator and gain handles, note, baseline) and
\* everything set or scheduled on its nodes.
C18_ChannelsIndependent ==
  [][events' # events =>
       \A d \in Channels \ {lastMessage'.channel} :
         /\ channels'[d] = channels[d]
         /\ NodesOf(gainNodes', oscillators', d) = NodesOf(gainNodes, oscillators, d)]_vars

\* C18 witness: two channels have a voice and a pressure message for one of
\* them has set a ramp on its gain node only.
C18_Witness ==
  \E c \in Channels, d \in Channels :
    /\ c # d
    /\ HasVoice(c)
    /\ HasVoice(d)
    /\ events = 3
    /\ thrown = "none"
    /\ lastMessage = PressureMessage(c, 127)
    /\ gainNodes[channels[c].gainNode.id].ramp.kind = "linear"
    /\ gainNodes[channels[d].gainNode.id].ramp = NoRamp
    /\ IsNum(channels[d].note)

\* C20: a gain node is created with gain 0 and nothing scheduled, its gain
\* is never set afterwards, and the only messages that change what is
\* scheduled on it are Pressure(p) on its channel, to p / (128 + gain), and
\* Note OFF on its channel, to 0; a Note ON changes no existing gain node.
C20_OnlyPressureAndNoteOffMoveGain ==
  [][events' # events =>
       /\ \A i \in (Len(gainNodes) + 1)..Len(gainNodes') :
            /\ gainNodes'[i].value = Num(0)
            /\ gainNodes'[i].ramp = NoRamp
       /\ \A i \in 1..Len(gainNodes) :
            /\ gainNodes'[i].value = gainNodes[i].value
            /\ gainNodes'[i].ramp # gainNodes[i].ramp =>
                 /\ lastMessage'.channel = gainNodes[i].forChannel
                 /\ \/ /\ lastMessage'.type = "Channel Pressure (After-touch)"
                       /\ gainNodes'[i].ramp.target =
                            Ratio(lastMessage'.pressure, 128 + configuration.gain.v)
                    \/ /\ lastMessage'.type = "Note OFF"
                       /\ gainNodes'[i].ramp.target = Ratio(0, 1)
       /\ lastMessage'.type = "Note ON" =>
            \A i \in 1..Len(gainNodes) : gainNodes'[i] = gainNodes[i]]_vars

\* C20 witness: a channel was played, released and retriggered; its gain
\* node still has gain 0 and the ramp to 0 of the release.
C20_Witness ==
  \E c \in Channels :
    /\ HasVoice(c)
    /\ events = 3
    /\ thrown = "none"
    /\ lastMessage = NoteONMessage(c, 60)
    /\ channels[c].startingPosY = Null
    /\ gainNodes[channels[c].gainNode.id].value = Num(0)
    /\ gainNodes[channels[c].gainNode.id].ramp.kind = "linear"
    /\ gainNodes[channels[c].gainNode.id].ramp.target = Ratio(0, 1)

\* ------------------------------------------------------ Filter claims
\* C11: updateGain(v) with a provided value v (0 included) stores
\* min(v, maxGain) as the filter gain, updateGain() with no argument leaves
\* the stored gain unchanged, and in both cases the node's gain is the
\* stored gain afterwards.
C11_UpdateGainStoresCappedValue ==
  [][\A value \in GainArgs :
       UpdateGain(value) =>
         /\ filter'.gain = IF value = Undefined THEN filter.gain
                           ELSE IF value.v > 100 THEN Num(100) ELSE value
         /\ filter'.biquadFilter.gain = filter'.gain]_vars

\* C15: in every state of a Filter, from construction with any gain
\* argument on, the stored gain and the node's gain are at most maxGain = 100.
C15_GainAtMostMaxGain ==
  /\ filter.gain.v <= 100
  /\ filter.biquadFilter.gain.v <= 100

\* The value an update call is given: an absent argument, and for the type
\* an empty one, gives none.
Provided(value) == value # Undefined /\ value # Str("")

\* C16: updateType, updateFrequency and updateQ store the value they are
\* given and keep the stored field when given none; after every update call
\* the node's type, frequency, Q and gain are the stored ones, and no call
\* changes a field other than its own.
C16_UpdatesStoreAndPushOwnField ==
  [][/\ \A value \in TypeArgs :
          UpdateType(value) =>
            LET new == IF Provided(value) THEN value.v ELSE filter.type
            IN  filter' = [filter EXCEPT !.type = new, !.biquadFilter.type = new]
     /\ \A value \in FrequencyUpdateArgs :
          UpdateFrequency(value) =>
            LET new == IF Provided(value) THEN value ELSE filter.frequency
            IN  filter' = [filter EXCEPT !.frequency = new, !.biquadFilter.frequency = new]
     /\ \A value \in QArgs :
          UpdateQ(value) =>
            LET new == IF Provided(value) THEN value ELSE filter.q
            IN  filter' = [filter EXCEPT !.q = new, !.biquadFilter.Q = new]
     /\ \A value \in GainArgs :
          UpdateGain(value) =>
            filter' = [filter EXCEPT !.gain = filter'.gain, !.biquadFilter.gain = filter'.gain]
     /\ filter'.biquadFilter.type = filter'.type
     /\ filter'.biquadFilter.frequency = filter'.frequency
     /\ filter'.biquadFilter.Q = filter'.q
     /\ filter'.biquadFilter.gain = filter'.gain
     /\ filter'.defaultFrequency = filter.defaultFrequency
     /\ filter'.maxGain = filter.maxGain]_vars

\* ---------------------------------------------------- waveform claims
\* C12: for every generator f and sample count N >= 0 the function
\* synthesizer gets sine coefficients [0, f(1), ..., f(N-1)] and N cosine
\* zeros, two arrays of equal length; f(i) = i with N = 4 gives sine
\* [0,1,2,3], cosine [0,0,0,0] and amplitude 3.
C12_GeneratorBuildsCoefficients ==
  [][\A g \in Generators, N \in 0..MaxSamples :
       NewFunction(g, N) =>
         /\ sin'.items = [i \in 1..N |-> IF i = 1 THEN 0 ELSE Apply(g, i - 1)]
         /\ cosin'.items = [i \in 1..N |-> 0]
         /\ Len(sin'.items) = Len(cosin'.items)
         /\ (g = "identity" /\ N = 4) =>
              /\ sin'.items = <<0, 1, 2, 3>>
              /\ cosin'.items = <<0, 0, 0, 0>>
              /\ amplitude' = Num(3)]_vars

\* The object under construction got its coefficient arrays.
IsCustom == type \in {"custom", "function"}

AllNonPositive(items) == \A i \in 1..Len(items) : items[i] <= 0
Abs(x) == IF x < 0 THEN -x ELSE x

\* C13: for every non-empty sine coefficient array of a custom synthesizer,
\* given as such or made by a generator, the amplitude is the largest
\* coefficient, or minus the smallest one when no coefficient is positive;
\* it is never negative.
C13_AmplitudeSignCorrected ==
  (IsCustom /\ Len(sin.items) > 0) =>
    /\ amplitude = IF AllNonPositive(sin.items) THEN Num(-MinOf(sin.items))
                                                ELSE Num(MaxOf(sin.items))
    /\ amplitude.v >= 0

\* C19: for every sine coefficient array of a custom synthesizer that starts
\* with 0, the amplitude is the largest absolute value of its coefficients,
\* also when positive and negative coefficients are mixed.
C19_AmplitudeIsLargestMagnitude ==
  (IsCustom /\ Len(sin.items) > 0 /\ sin.items[1] = 0) =>
    /\ amplitude.t = "num"
    /\ \A i \in 1..Len(sin.items) : Abs(sin.items[i]) <= amplitude.v
    /\ \E i \in 1..Len(sin.items) : Abs(sin.items[i]) = amplitude.v

====
